---- MODULE Spec2Model ----
(***************************************************************************)
(* A model of the image-processing repository:                             *)
(*   src/auto_tholding.py   analyze_grayscale_image  (histogram + Otsu)    *)
(*   src/crop_extension.py  random_crop_containing_bbox, crop_to_grid,     *)
(*                          crop_to_grid_with_offset                       *)
(* Every function is stateless; a behaviour of the model is one call: the  *)
(* action draws the arguments, runs the whole function body and records    *)
(* either the returned value or the raised exception.                      *)
(***************************************************************************)
EXTENDS Integers, Sequences, FiniteSets, TLC

VARIABLES
    pc,     \* "idle" before the call, "returned" or "raised" after it
    fn,     \* name of the function that was called
    args,   \* record of the arguments of the call
    ret,    \* the returned value (None when nothing was returned)
    exc     \* the raised exception (None when nothing was raised)

vars == <<pc, fn, args, ret, exc>>

None == "None"

(***************************************************************************)
(* Bounds of the explored inputs:                                           *)
(*   MaxPixels  largest number of pixels of a small grayscale array        *)
(*   MaxDim     largest width / height of a small PIL image                *)
(*   MaxBox     largest width / height of a bounding box                   *)
(*   MaxTile    largest tile width / height                                *)
(*   MaxNeg     tile widths / heights go down to -MaxNeg                   *)
(***************************************************************************)
MaxPixels == 4
MaxDim == 3
MaxBox == 2
MaxTile == 4
MaxNeg == 2

(***************************************************************************)
(* numpy floating point values, as far as the code can produce them: a     *)
(* finite value is an exact fraction n/d in lowest terms (d > 0); 0/0 is   *)
(* nan and x/0 (x # 0) is inf.                                             *)
(***************************************************************************)
Abs(x) == IF x < 0 THEN -x ELSE x

RECURSIVE GCD(_, _)
GCD(a, b) == IF b = 0 THEN a ELSE GCD(b, a % b)

Fin(n, d) ==
    LET g == GCD(Abs(n), Abs(d))
        s == IF d < 0 THEN -1 ELSE 1
    IN  [k |-> "fin", n |-> s * (n \div g), d |-> s * (d \div g)]

NaN == [k |-> "nan", n |-> 0, d |-> 1]
Inf == [k |-> "inf", n |-> 1, d |-> 1]

\* int / int, numpy true division (line 38, 39): division by zero does not
\* raise, it yields nan (0/0) or inf (x/0).
TrueDivide(a, b) ==
    IF b # 0 THEN Fin(a, b)
    ELSE IF a = 0 THEN NaN ELSE Inf

\* (x - y) ** 2
SquaredDifference(x, y) ==
    IF x.k = "nan" \/ y.k = "nan" THEN NaN
    ELSE IF x.k = "inf" /\ y.k = "inf" THEN NaN
    ELSE IF x.k = "inf" \/ y.k = "inf" THEN Inf
    ELSE LET num == x.n * y.d - y.n * x.d
             den == x.d * y.d
         IN  Fin(num * num, den * den)

\* integer * float
Scale(i, x) ==
    IF x.k = "nan" THEN NaN
    ELSE IF x.k = "inf" THEN (IF i = 0 THEN NaN ELSE Inf)
    ELSE Fin(i * x.n, x.d)

\* x > y on floats; every comparison with nan is false
Greater(x, y) ==
    IF x.k = "nan" \/ y.k = "nan" THEN FALSE
    ELSE IF x.k = "inf" THEN y.k # "inf"
    ELSE IF y.k = "inf" THEN FALSE
    ELSE x.n * y.d > y.n * x.d

(***************************************************************************)
(* src/auto_tholding.py                                                    *)
(***************************************************************************)
NumLevels == 256

Levels == 0 .. (NumLevels - 1)

\* np.sum(image == i): the comparison gives one boolean per element and the
\* sum adds them up as 0 / 1 (elements lo .. hi of the flattened array)
RECURSIVE SumEqual(_, _, _, _)
SumEqual(data, i, lo, hi) ==
    IF lo > hi THEN 0
    ELSE IF lo = hi THEN (IF data[lo] = i THEN 1 ELSE 0)
    ELSE LET mid == (lo + hi) \div 2
         IN  SumEqual(data, i, lo, mid) + SumEqual(data, i, mid + 1, hi)

\* the histogram with its loop one level short, range(255): the last bin is
\* never counted
Histogram_LoopOneShort(image) ==
    [i \in Levels |-> IF i = NumLevels - 1 THEN 0
                      ELSE SumEqual(image.data, i, 1, Len(image.data))]

\* lines 20-22
Histogram(image) ==
    [i \in Levels |-> SumEqual(image.data, i, 1, Len(image.data))]

\* a.cumsum() over the indices lo .. hi of a, started from base, as a sequence
RECURSIVE CumSumSeq(_, _, _, _)
CumSumSeq(a, lo, hi, base) ==
    IF lo = hi THEN <<base + a[lo]>>
    ELSE LET mid  == (lo + hi) \div 2
             left == CumSumSeq(a, lo, mid, base)
         IN  left \o CumSumSeq(a, mid + 1, hi, left[Len(left)])

CumSum(a) ==
    LET s == CumSumSeq(a, 0, NumLevels - 1, 0)
    IN  [t \in Levels |-> s[t + 1]]

\* line 30: (pixel_range * histogram).cumsum()
CumSumVals(histogram) == CumSum([i \in Levels |-> i * histogram[i]])

\* line 33: computed by the code, and used by nothing after it
Mask(cumsum, total_pixels) ==
    [t \in Levels |-> cumsum[t] # 0 /\ cumsum[t] # total_pixels]

\* lines 36-42 at index t of the 255 long arrays
VarianceAt(cumsum, cumsum_vals, total_pixels, t) ==
    LET w1  == cumsum[t]
        w2  == total_pixels - w1
        mu1 == TrueDivide(cumsum_vals[t], w1)
        mu2 == TrueDivide(cumsum_vals[NumLevels - 1] - cumsum_vals[t], w2)
    IN  Scale(w1 * w2, SquaredDifference(mu1, mu2))

\* np.argmax of a float array over the indices lo .. hi: the first nan when
\* there is one, otherwise the first index of the maximum
RECURSIVE ArgMaxRange(_, _, _)
ArgMaxRange(a, lo, hi) ==
    IF lo = hi THEN lo
    ELSE LET mid == (lo + hi) \div 2
             l   == ArgMaxRange(a, lo, mid)
             r   == ArgMaxRange(a, mid + 1, hi)
         IN  IF a[l].k = "nan" THEN l
             ELSE IF a[r].k = "nan" THEN r
             ELSE IF Greater(a[r], a[l]) THEN r
             ELSE l

ArgMax(a, n) == ArgMaxRange(a, 0, n - 1)

\* lines 25-45
OtsuThreshold(histogram, total_pixels) ==
    LET cumsum      == CumSum(histogram)
        cumsum_vals == CumSumVals(histogram)
        variance    == [t \in 0 .. (NumLevels - 2) |->
                           VarianceAt(cumsum, cumsum_vals, total_pixels, t)]
    IN  ArgMax(variance, NumLevels - 1)

\* The arrays the call is tried on: every array of at most MaxPixels pixels
\* over a few intensities, the 10 x 10 example of the documentation, and
\* an array that is not uint8.
Intensities == {0, 10, 200, 255}

Shapes == {s \in (1 .. MaxPixels) \X (1 .. MaxPixels) : s[1] * s[2] <= MaxPixels}

SmallArrays ==
    UNION {[dtype : {"uint8"}, shape : {s},
            data : [1 .. (s[1] * s[2]) -> Intensities]] : s \in Shapes}

ExampleArray ==
    [dtype |-> "uint8", shape |-> <<10, 10>>,
     data |-> [k \in 1 .. 100 |-> IF k <= 20 THEN 10 ELSE 200]]

OtherArrays ==
    {[dtype |-> "int16", shape |-> <<1, 2>>, data |-> <<300, 0>>],
     [dtype |-> "uint8", shape |-> <<0, 0>>, data |-> <<>>]}

Arrays == SmallArrays \cup {ExampleArray} \cup OtherArrays

\* image.size
ArraySize(image) == image.shape[1] * image.shape[2]

analyze_grayscale_image(image) ==
    /\ pc = "idle"
    /\ fn' = "analyze_grayscale_image"
    /\ args' = [image |-> image]
    /\ IF image.dtype # "uint8"
       THEN /\ pc' = "raised"
            /\ exc' = "Image must be uint8"
            /\ ret' = None
       ELSE LET histogram == Histogram(image)
            IN  /\ pc' = "returned"
                /\ exc' = None
                /\ ret' = [histogram |-> histogram,
                           threshold |-> OtsuThreshold(histogram, ArraySize(image))]

(***************************************************************************)
(* PIL images.  An image is kept by what its pixels are, not by a pixel    *)
(* buffer: `size` and `mode` are the image's own; the rectangle of size    *)
(* `extent` at position `at` of the image shows the rectangle of the same  *)
(* size at position `origin` of the image that was opened (whose mode was  *)
(* `srcmode`), and every other pixel is zero.                              *)
(***************************************************************************)
Min(a, b) == IF a < b THEN a ELSE b
Max(a, b) == IF a > b THEN a ELSE b

\* Python's a // b
FloorDiv(a, b) == IF b > 0 THEN a \div b ELSE (-a) \div (-b)

Bands(mode) ==
    CASE mode = "L"    -> 1
      [] mode = "RGB"  -> 3
      [] mode = "RGBA" -> 4

\* the pixel (x, y) of the opened image of mode `mode`: one value per band
SourcePixel(mode, x, y) ==
    [b \in 1 .. Bands(mode) |-> (17 * x + 29 * y + 61 * b) % 256]

\* the opened image
OpenImage(mode, w, h) ==
    [mode |-> mode, size |-> <<w, h>>, srcmode |-> mode,
     origin |-> <<0, 0>>, at |-> <<0, 0>>, extent |-> <<w, h>>]

ZeroPixel(mode) == [b \in 1 .. Bands(mode) |-> 0]

\* im.convert(mode) of one pixel, for the conversions paste() makes
ConvertPixel(px, from, to) ==
    IF from = to THEN px
    ELSE IF from = "L" /\ to = "RGB" THEN <<px[1], px[1], px[1]>>
    ELSE IF from = "RGBA" /\ to = "RGB" THEN <<px[1], px[2], px[3]>>
    ELSE px

\* im.getpixel((u, v))
GetPixel(im, u, v) ==
    IF /\ im.at[1] <= u /\ u < im.at[1] + im.extent[1]
       /\ im.at[2] <= v /\ v < im.at[2] + im.extent[2]
    THEN ConvertPixel(SourcePixel(im.srcmode, im.origin[1] + u - im.at[1],
                                              im.origin[2] + v - im.at[2]),
                      im.srcmode, im.mode)
    ELSE ZeroPixel(im.mode)

\* Image.crop(box) for a box with left <= right and upper <= lower: an image
\* of the box's size; what of the box lies outside the image is zero
Crop(im, box) ==
    LET lo(a)  == Max(box[a], im.at[a])
        hi(a)  == Min(box[a + 2], im.at[a] + im.extent[a])
        len(a) == Max(hi(a) - lo(a), 0)
    IN  [mode    |-> im.mode,
         size    |-> <<box[3] - box[1], box[4] - box[2]>>,
         srcmode |-> im.srcmode,
         origin  |-> <<im.origin[1] + lo(1) - im.at[1],
                       im.origin[2] + lo(2) - im.at[2]>>,
         at      |-> <<lo(1) - box[1], lo(2) - box[2]>>,
         extent  |-> <<len(1), len(2)>>]

\* Image.crop(box) for a box with right < left or lower < upper: the
\* library raises ValueError (strict), or, in its older releases, returns an
\* image whose size is 0 on that axis
CropError(box) ==
    IF box[3] < box[1] THEN "Coordinate 'right' is less than 'left'"
    ELSE IF box[4] < box[2] THEN "Coordinate 'lower' is less than 'upper'"
    ELSE None

CropLenient(im, box) ==
    Crop(im, <<box[1], box[2], Max(box[3], box[1]), Max(box[4], box[2])>>)

\* Image.new("RGB", size) followed by paste(crop, (0, 0)), for size >= 0:
\* a black RGB canvas with the crop, converted to RGB, at its top left
NewAndPaste(mode, size, crop) ==
    [mode    |-> mode,
     size    |-> size,
     srcmode |-> crop.srcmode,
     origin  |-> crop.origin,
     at      |-> crop.at,
     extent  |-> <<Max(Min(crop.at[1] + crop.extent[1], size[1]) - crop.at[1], 0),
                   Max(Min(crop.at[2] + crop.extent[2], size[2]) - crop.at[2], 0)>>]

\* the argument of a call that passes None for the image
NoImage == [none |-> TRUE]

Modes == {"L", "RGB", "RGBA"}

Dims == 1 .. MaxDim

(***************************************************************************)
(* src/crop_extension.py: random_crop_containing_bbox                      *)
(***************************************************************************)
\* lines 45-48, one axis: extent is the image's width (height), b1 and b2
\* the bbox's low and high edge, crop the crop's width (height)
min_corner(extent, b1, b2, crop) == Max(0, b2 - crop)

\* the largest corner with the crop's extent forgotten
max_corner_IgnoresCrop(extent, b1, b2, crop) == Min(extent, b1)

max_corner(extent, b1, b2, crop) == Min(extent - crop, b1)

\* lines 55, 56: random.randint(lo, hi) if lo < hi else lo; randint returns
\* any integer of lo .. hi, both ends included
\* the selection made with random.randrange(lo, hi), which never returns hi
RandomCorner_HalfOpen(lo, hi) == IF lo < hi THEN lo .. (hi - 1) ELSE {lo}

RandomCorner(lo, hi) == IF lo < hi THEN lo .. hi ELSE {lo}

\* line 37
BBoxOutOfBounds(image, bbox) ==
    LET width   == image.size[1]
        height  == image.size[2]
        bbox_x1 == bbox[1]
        bbox_y1 == bbox[2]
        bbox_x2 == bbox[1] + bbox[3]
        bbox_y2 == bbox[2] + bbox[4]
    IN  bbox_x1 < 0 \/ bbox_y1 < 0 \/ bbox_x2 > width \/ bbox_y2 > height

\* the test of line 41 with "and" for "or"
CropTooSmall_BothAxes(bbox, crop_size) ==
    bbox[3] > crop_size[1] /\ bbox[4] > crop_size[2]

\* line 41
CropTooSmall(bbox, crop_size) ==
    bbox[3] > crop_size[1] \/ bbox[4] > crop_size[2]

\* the test of line 51 with "and" for "or"
NoValidRegion_BothAxes(image, bbox, crop_size) ==
    LET min_x == min_corner(image.size[1], bbox[1], bbox[1] + bbox[3], crop_size[1])
        max_x == max_corner(image.size[1], bbox[1], bbox[1] + bbox[3], crop_size[1])
        min_y == min_corner(image.size[2], bbox[2], bbox[2] + bbox[4], crop_size[2])
        max_y == max_corner(image.size[2], bbox[2], bbox[2] + bbox[4], crop_size[2])
    IN  min_x > max_x /\ min_y > max_y

\* lines 45-51
NoValidRegion(image, bbox, crop_size) ==
    LET min_x == min_corner(image.size[1], bbox[1], bbox[1] + bbox[3], crop_size[1])
        max_x == max_corner(image.size[1], bbox[1], bbox[1] + bbox[3], crop_size[1])
        min_y == min_corner(image.size[2], bbox[2], bbox[2] + bbox[4], crop_size[2])
        max_y == max_corner(image.size[2], bbox[2], bbox[2] + bbox[4], crop_size[2])
    IN  min_x > max_x \/ min_y > max_y

\* lines 21-52: the exception the validations raise, in the order of the
\* code; None when they all pass
CropValidation(image, bbox, crop_size) ==
    IF image = NoImage THEN "Image cannot be None"
    ELSE IF Len(crop_size) # 2 THEN "crop_size must be a tuple of length 2"
    ELSE IF crop_size[1] <= 0 \/ crop_size[2] <= 0
         THEN "crop_size dimensions must be positive"
    ELSE IF BBoxOutOfBounds(image, bbox)
         THEN "Bounding box is out of image bounds"
    ELSE IF CropTooSmall(bbox, crop_size)
         THEN "Crop size is smaller than bounding box"
    ELSE IF NoValidRegion(image, bbox, crop_size)
         THEN "No valid crop region exists that contains the bounding box"
    ELSE None

\* lines 54-56: the corners (x, y) the random selection can produce
PossibleCorners(image, bbox, crop_size) ==
    RandomCorner(min_corner(image.size[1], bbox[1], bbox[1] + bbox[3], crop_size[1]),
                 max_corner(image.size[1], bbox[1], bbox[1] + bbox[3], crop_size[1]))
    \X
    RandomCorner(min_corner(image.size[2], bbox[2], bbox[2] + bbox[4], crop_size[2]),
                 max_corner(image.size[2], bbox[2], bbox[2] + bbox[4], crop_size[2]))

random_crop_containing_bbox(image, bbox, crop_size) ==
    /\ pc = "idle"
    /\ fn' = "random_crop_containing_bbox"
    /\ args' = [image |-> image, bbox |-> bbox, crop_size |-> crop_size]
    /\ LET error == CropValidation(image, bbox, crop_size)
       IN  IF error # None
           THEN /\ pc' = "raised"
                /\ exc' = error
                /\ ret' = None
           ELSE \E c \in PossibleCorners(image, bbox, crop_size) :
                    /\ pc' = "returned"
                    /\ exc' = None
                    /\ ret' = [image  |-> Crop(image, <<c[1], c[2], c[1] + crop_size[1],
                                                        c[2] + crop_size[2]>>),
                               offset |-> c]

\* The calls tried: every image up to MaxDim x MaxDim, every bbox from one
\* pixel left of and above the image with sides up to MaxBox, every crop size
\* from 0 to one more than MaxDim; and a missing image and crop sizes that
\* are no pairs.
CropImages == {OpenImage(m, w, h) : m \in Modes, w \in Dims, h \in Dims}

BBoxes == (-1 .. (MaxDim - 1)) \X (-1 .. (MaxDim - 1)) \X (0 .. MaxBox) \X (0 .. MaxBox)

CropSizes == (0 .. (MaxDim + 1)) \X (0 .. (MaxDim + 1))

RandomCropCall ==
    /\ pc = "idle"
    /\ \/ \E image \in CropImages, bbox \in BBoxes, crop_size \in CropSizes :
              random_crop_containing_bbox(image, bbox, crop_size)
       \/ \E crop_size \in {<<1, 1>>, <<0, 1>>, <<2>>} :
              random_crop_containing_bbox(NoImage, <<0, 0, 1, 1>>, crop_size)
       \/ \E image \in CropImages, crop_size \in {<<2>>, <<2, 2, 2>>} :
              random_crop_containing_bbox(image, <<0, 0, 1, 1>>, crop_size)

NextCrop == RandomCropCall

(***************************************************************************)
(* src/crop_extension.py: crop_to_grid, crop_to_grid_with_offset           *)
(***************************************************************************)
\* the count rounded down instead of up
num_crops_RoundsDown(extent, tile) == FloorDiv(extent, tile)

\* lines 73, 74 (one axis), for tile # 0
num_crops(extent, tile) == FloorDiv(extent + tile - 1, tile)

\* the count of crop_to_grid applied to what is right of the offset
num_crops_offset_RoundsUp(extent, offset, tile) ==
    FloorDiv(extent - offset + tile - 1, tile)

\* lines 111, 112 (one axis), for tile # 0
num_crops_offset(extent, offset, tile) == FloorDiv(extent - offset - 1, tile)

\* the // of lines 73, 74, 111, 112 raises ZeroDivisionError for a divisor 0
DividesByZero(tile_size) == tile_size[1] = 0 \/ tile_size[2] = 0

\* lines 82-85 and 119-122: the box of the tile of column i and row j
TileBox(image, tile_size, i, j) ==
    LET left  == i * tile_size[1]
        upper == j * tile_size[2]
        right == Min(left + tile_size[1], image.size[1])
        lower == Min(upper + tile_size[2], image.size[2])
    IN  <<left, upper, right, lower>>

\* the order of the two loops: the k-th iteration (k from 0) is column
\* k // num_y, row k % num_y
LoopColumn(k, num_y) == k \div num_y

LoopRow(k, num_y) == k % num_y

\* line 92: the mode of the canvas an edge tile is pasted into
PaddingMode(image) == "RGB"

\* lines 82-96, one iteration: [tile |-> the appended tile] or [error |-> the
\* raised exception]
GridTile(image, tile_size, i, j, strict) ==
    LET box  == TileBox(image, tile_size, i, j)
        crop == CropLenient(image, box)
    IN  IF strict /\ CropError(box) # None THEN [error |-> CropError(box)]
        ELSE IF crop.size # tile_size
        THEN IF tile_size[1] < 0 \/ tile_size[2] < 0
             THEN [error |-> "Width and height must be >= 0"]
             ELSE [tile |-> NewAndPaste(PaddingMode(image), tile_size, crop)]
        ELSE [tile |-> crop]

\* lines 119-126, one iteration
OffsetTile(image, tile_size, i, j, strict) ==
    LET box == TileBox(image, tile_size, i, j)
    IN  IF strict /\ CropError(box) # None THEN [error |-> CropError(box)]
        ELSE [tile |-> CropLenient(image, box)]

IsError(outcome) == "error" \in DOMAIN outcome

\* the loops: outcomes is the sequence of the iterations' outcomes in loop
\* order; the first exception ends the call, otherwise the tiles are returned
FinishLoops(outcomes) ==
    LET failed == {k \in DOMAIN outcomes : IsError(outcomes[k])}
    IN  IF failed # {}
        THEN LET first == CHOOSE k \in failed : \A l \in failed : k <= l
             IN  /\ pc' = "raised"
                 /\ exc' = outcomes[first].error
                 /\ ret' = None
        ELSE /\ pc' = "returned"
             /\ exc' = None
             /\ ret' = [k \in DOMAIN outcomes |-> outcomes[k].tile]

\* range(n) is empty for n <= 0
Iterations(num_x, num_y) ==
    IF num_x <= 0 \/ num_y <= 0 THEN 0 ELSE num_x * num_y

crop_to_grid(image, tile_size, strict) ==
    /\ fn' = "crop_to_grid"
    /\ args' = [image |-> image, tile_size |-> tile_size]
    /\ LET num_crops_x == num_crops(image.size[1], tile_size[1])
           num_crops_y == num_crops(image.size[2], tile_size[2])
       IN  IF DividesByZero(tile_size)
           THEN /\ pc' = "raised"
                /\ exc' = "ZeroDivisionError"
                /\ ret' = None
           ELSE FinishLoops(
                    [k \in 1 .. Iterations(num_crops_x, num_crops_y) |->
                        GridTile(image, tile_size, LoopColumn(k - 1, num_crops_y),
                                 LoopRow(k - 1, num_crops_y), strict)])

crop_to_grid_with_offset(image, tile_size, offset, strict) ==
    /\ fn' = "crop_to_grid_with_offset"
    /\ args' = [image |-> image, tile_size |-> tile_size, offset |-> offset]
    /\ LET num_crops_x == num_crops_offset(image.size[1], offset[1], tile_size[1])
           num_crops_y == num_crops_offset(image.size[2], offset[2], tile_size[2])
       IN  IF DividesByZero(tile_size)
           THEN /\ pc' = "raised"
                /\ exc' = "ZeroDivisionError"
                /\ ret' = None
           ELSE FinishLoops(
                    [k \in 1 .. Iterations(num_crops_x, num_crops_y) |->
                        OffsetTile(image, tile_size, LoopColumn(k - 1, num_crops_y),
                                   LoopRow(k - 1, num_crops_y), strict)])

\* The calls tried: every image up to MaxDim x MaxDim in every mode with
\* every tile size of -MaxNeg .. MaxTile and every offset of 0 .. MaxDim, and
\* the two examples of the documentation.
GridImages == {OpenImage(m, w, h) : m \in Modes, w \in Dims, h \in Dims}

TileSizes == ((-MaxNeg) .. MaxTile) \X ((-MaxNeg) .. MaxTile)

Offsets == (0 .. MaxDim) \X (0 .. MaxDim)

CropToGridCall ==
    /\ pc = "idle"
    /\ \/ \E image \in GridImages, tile_size \in TileSizes, strict \in BOOLEAN :
              crop_to_grid(image, tile_size, strict)
       \/ crop_to_grid(OpenImage("RGB", 600, 400), <<512, 512>>, TRUE)

CropToGridWithOffsetCall ==
    /\ pc = "idle"
    /\ \/ \E image \in GridImages, tile_size \in TileSizes, offset \in Offsets,
             strict \in BOOLEAN :
              crop_to_grid_with_offset(image, tile_size, offset, strict)
       \/ crop_to_grid_with_offset(OpenImage("RGB", 1024, 1024), <<512, 512>>,
                                   <<256, 256>>, TRUE)

NextGrid == CropToGridCall \/ CropToGridWithOffsetCall

Init ==
    /\ pc = "idle"
    /\ fn = None
    /\ args = None
    /\ ret = None
    /\ exc = None

AnalyzeCall ==
    /\ pc = "idle"
    /\ \E image \in Arrays : analyze_grayscale_image(image)

NextThreshold == AnalyzeCall

SpecThreshold == Init /\ [][NextThreshold]_vars

SpecCrop == Init /\ [][NextCrop]_vars

SpecGrid == Init /\ [][NextGrid]_vars

\* a call of any of the four functions
Next == NextThreshold \/ NextCrop \/ NextGrid

Spec == Init /\ [][Next]_vars

(***************************************************************************)
(* Properties.                                                             *)
(***************************************************************************)
Returned(f) == pc = "returned" /\ fn = f
Called(f)   == pc # "idle" /\ fn = f

\* the pixels of an array with intensity at most t, and the sum of their
\* intensities
PixelsUpTo(image, t) == {k \in DOMAIN image.data : image.data[k] <= t}

RECURSIVE SumUpTo(_, _, _, _)
SumUpTo(data, t, lo, hi) ==
    IF lo > hi THEN 0
    ELSE IF lo = hi THEN (IF data[lo] <= t THEN data[lo] ELSE 0)
    ELSE LET mid == (lo + hi) \div 2
         IN  SumUpTo(data, t, lo, mid) + SumUpTo(data, t, mid + 1, hi)

\* a split t is valid when both of its classes hold a pixel
ValidSplit(image, t) ==
    LET wA == Cardinality(PixelsUpTo(image, t))
    IN  wA > 0 /\ Len(image.data) - wA > 0

\* wA * wB * (meanA - meanB)^2 of a valid split, as an exact fraction
BetweenClassVariance(image, t) ==
    LET n  == Len(image.data)
        wA == Cardinality(PixelsUpTo(image, t))
        wB == n - wA
        sA == SumUpTo(image.data, t, 1, n)
        sB == SumUpTo(image.data, NumLevels - 1, 1, n) - sA
    IN  Scale(wA * wB, SquaredDifference(Fin(sA, wA), Fin(sB, wB)))

Splits == 0 .. (NumLevels - 2)

\* t is the smallest valid split of the largest between-class variance
SmallestBestSplit(image, t) ==
    LET valid == {u \in Splits : ValidSplit(image, u)}
        var   == [u \in valid |-> BetweenClassVariance(image, u)]
        v     == var[t]
    IN  /\ t \in valid
        /\ \A u \in valid : ~Greater(var[u], v)
        /\ \A u \in valid : u < t => Greater(v, var[u])

\* C1: the returned threshold is the smallest split t of 0 .. 254 that
\* maximizes wA*wB*(meanA-meanB)^2 over the valid splits (both classes
\* non-empty) whenever a valid split exists; for 20 pixels of intensity 10
\* and 80 pixels of intensity 200 it is 10.
C1_ThresholdIsSmallestBestSplit ==
    Returned("analyze_grayscale_image") =>
        /\ (\E t \in Splits : ValidSplit(args.image, t))
               => SmallestBestSplit(args.image, ret.threshold)
        /\ args.image = ExampleArray => ret.threshold = 10

\* the sum of an array over the indices lo .. hi
RECURSIVE SumRange(_, _, _)
SumRange(a, lo, hi) ==
    IF lo = hi THEN a[lo]
    ELSE LET mid == (lo + hi) \div 2
         IN  SumRange(a, lo, mid) + SumRange(a, mid + 1, hi)

\* C2: the returned histogram has 256 entries, entry i is the number of
\* pixels of value i, and the entries add up to width * height.
C2_HistogramCountsPixels ==
    Returned("analyze_grayscale_image") =>
        /\ DOMAIN ret.histogram = 0 .. 255
        /\ \A i \in 0 .. 255 :
               ret.histogram[i] =
                   Cardinality({k \in DOMAIN args.image.data : args.image.data[k] = i})
        /\ SumRange(ret.histogram, 0, 255) = args.image.shape[1] * args.image.shape[2]

\* C2 witness: the histogram of the 10 x 10 example
C2_Witness ==
    /\ Returned("analyze_grayscale_image")
    /\ args.image = ExampleArray
    /\ ret.histogram[10] = 20
    /\ ret.histogram[200] = 80
    /\ ret.histogram[255] = 0

\* the messages of the exceptions of random_crop_containing_bbox
OutOfBoundsError  == "Bounding box is out of image bounds"
CropTooSmallError == "Crop size is smaller than bounding box"
NoValidRegionError ==
    "No valid crop region exists that contains the bounding box"

\* the crop rectangle with top-left corner c contains the bbox and lies in
\* the image
ContainsBBox(c, bbox, crop_size) ==
    /\ c[1] <= bbox[1] /\ bbox[1] + bbox[3] <= c[1] + crop_size[1]
    /\ c[2] <= bbox[2] /\ bbox[2] + bbox[4] <= c[2] + crop_size[2]

InsideImage(c, image, crop_size) ==
    /\ 0 <= c[1] /\ c[1] + crop_size[1] <= image.size[1]
    /\ 0 <= c[2] /\ c[2] + crop_size[2] <= image.size[2]

\* C3: whenever random_crop_containing_bbox returns (crop, (x, y)), the
\* rectangle [x, x+cw) x [y, y+ch) contains the bbox and lies inside the
\* image, and the returned crop is that rectangle of the image.
C3_CropContainsBBoxInsideImage ==
    Returned("random_crop_containing_bbox") =>
        /\ ContainsBBox(ret.offset, args.bbox, args.crop_size)
        /\ InsideImage(ret.offset, args.image, args.crop_size)
        /\ ret.image.size = args.crop_size
        /\ ret.image.origin = ret.offset
        /\ ret.image.extent = args.crop_size

\* C3 witness: a crop smaller than the image, not at the image's corner,
\* around a bbox of positive area
C3_Witness ==
    /\ Returned("random_crop_containing_bbox")
    /\ args.bbox[3] > 0 /\ args.bbox[4] > 0
    /\ args.crop_size[1] < args.image.size[1]
    /\ args.crop_size[2] < args.image.size[2]
    /\ ret.offset[1] > 0 /\ ret.offset[2] > 0

\* the case of C4: a call with an image and a positive crop size that is
\* smaller than the bbox on some axis
C4_Case ==
    /\ Called("random_crop_containing_bbox")
    /\ args.image # NoImage
    /\ Len(args.crop_size) = 2
    /\ args.crop_size[1] > 0 /\ args.crop_size[2] > 0
    /\ (args.bbox[3] > args.crop_size[1] \/ args.bbox[4] > args.crop_size[2])

\* C4 as stated: for any image, bbox and positive crop size, a bbox wider or
\* higher than the crop size makes the call fail with the crop-too-small
\* error.
C4_TooSmallAlwaysCropTooSmallError ==
    C4_Case => pc = "raised" /\ exc = CropTooSmallError

\* C4 as amended: such a call never returns; it fails with the
\* crop-too-small error when the bbox lies within the image bounds, and with
\* the out-of-bounds error, which is tested first, when it does not.
C4_TooSmallRaisesAfterBoundsCheck ==
    C4_Case =>
        /\ pc = "raised"
        /\ exc = IF BBoxOutOfBounds(args.image, args.bbox)
                 THEN OutOfBoundsError ELSE CropTooSmallError

\* C4 witness: a bbox inside the image, too wide for the crop only
C4_Witness ==
    /\ C4_Case
    /\ ~BBoxOutOfBounds(args.image, args.bbox)
    /\ args.bbox[3] > args.crop_size[1]
    /\ args.bbox[4] <= args.crop_size[2]
    /\ exc = CropTooSmallError

\* the case of C8: the validations before the valid-region test have passed
C8_Case ==
    /\ Called("random_crop_containing_bbox")
    /\ args.image # NoImage
    /\ Len(args.crop_size) = 2
    /\ args.crop_size[1] > 0 /\ args.crop_size[2] > 0
    /\ args.bbox[3] >= 0 /\ args.bbox[4] >= 0
    /\ args.bbox[1] >= 0 /\ args.bbox[2] >= 0
    /\ args.bbox[1] + args.bbox[3] <= args.image.size[1]
    /\ args.bbox[2] + args.bbox[4] <= args.image.size[2]
    /\ args.bbox[3] <= args.crop_size[1]
    /\ args.bbox[4] <= args.crop_size[2]

\* C8: once the earlier validations have passed, the call fails with the
\* no-valid-region error exactly when the image is smaller than the crop
\* size on some axis, and returns a result otherwise.
C8_NoValidRegionIffImageTooSmall ==
    C8_Case =>
        IF \/ args.image.size[1] < args.crop_size[1]
           \/ args.image.size[2] < args.crop_size[2]
        THEN pc = "raised" /\ exc = NoValidRegionError
        ELSE pc = "returned"

\* C8 witness: the image is too narrow for the crop, and high enough
C8_Witness ==
    /\ C8_Case
    /\ args.image.size[1] < args.crop_size[1]
    /\ args.image.size[2] >= args.crop_size[2]
    /\ args.bbox[3] > 0 /\ args.bbox[4] > 0
    /\ exc = NoValidRegionError

\* every corner whose crop rectangle contains the bbox and lies inside the
\* image, found by trying all of them
ValidCorners(image, bbox, crop_size) ==
    {c \in ((-MaxDim - 1) .. (MaxDim + 1)) \X ((-MaxDim - 1) .. (MaxDim + 1)) :
        ContainsBBox(c, bbox, crop_size) /\ InsideImage(c, image, crop_size)}

\* C10: for arguments that pass the validations, the corners the random
\* selection can return are exactly the corners whose crop rectangle
\* contains the bbox and lies inside the image.
C10_PossibleCornersAreTheValidCorners ==
    Returned("random_crop_containing_bbox") =>
        /\ PossibleCorners(args.image, args.bbox, args.crop_size)
               = ValidCorners(args.image, args.bbox, args.crop_size)
        /\ ret.offset \in ValidCorners(args.image, args.bbox, args.crop_size)

\* C10 witness: the selection returned the last of several corners on the
\* x axis, and the only corner on the y axis
C10_Witness ==
    /\ Returned("random_crop_containing_bbox")
    /\ \E c \in ValidCorners(args.image, args.bbox, args.crop_size) :
           c[1] < ret.offset[1]
    /\ \A c \in ValidCorners(args.image, args.bbox, args.crop_size) :
           c[1] <= ret.offset[1] /\ c[2] = ret.offset[2]
    /\ args.bbox[3] > 0 /\ args.bbox[4] > 0

\* ceil(a / b) and floor(a / b) for a >= 0 and b >= 1, by their definitions
Ceil(a, b)  == CHOOSE n \in 0 .. a : (n - 1) * b < a /\ a <= n * b
Floor(a, b) == CHOOSE n \in 0 .. a : n * b <= a /\ a < (n + 1) * b

PositiveTile == args.tile_size[1] >= 1 /\ args.tile_size[2] >= 1

\* C5: for a tile size (tw, th) >= 1, crop_to_grid returns exactly
\* ceil(W/tw) * ceil(H/th) tiles, each of them tw wide and th high.
C5_GridReturnsCeilTimesCeilFullTiles ==
    Called("crop_to_grid") /\ PositiveTile =>
        /\ pc = "returned"
        /\ Len(ret) = Ceil(args.image.size[1], args.tile_size[1])
                        * Ceil(args.image.size[2], args.tile_size[2])
        /\ \A k \in 1 .. Len(ret) : ret[k].size = args.tile_size

\* C5 witness: the 600 x 400 image cut into 512 x 512 tiles gives 2 tiles
C5_Witness ==
    /\ Returned("crop_to_grid")
    /\ args.image.size = <<600, 400>>
    /\ args.tile_size = <<512, 512>>
    /\ Len(ret) = 2
    /\ ret[2].size = <<512, 512>>

\* C6: for a positive tile size, the tile at position i*nY + j of the
\* returned sequence holds at (u, v) the image pixel (i*tw+u, j*th+v) when
\* that lies inside the image and the zero fill value otherwise.
C6_TilesHoldTheImagePixels ==
    Returned("crop_to_grid") /\ PositiveTile =>
        LET W  == args.image.size[1]
            H  == args.image.size[2]
            tw == args.tile_size[1]
            th == args.tile_size[2]
            nX == Ceil(W, tw)
            nY == Ceil(H, th)
        IN  \A i \in 0 .. (nX - 1), j \in 0 .. (nY - 1) :
                \A u \in 0 .. (tw - 1), v \in 0 .. (th - 1) :
                    LET px == GetPixel(ret[i * nY + j + 1], u, v)
                        x  == i * tw + u
                        y  == j * th + v
                    IN  IF x < W /\ y < H
                        THEN px = GetPixel(args.image, x, y)
                        ELSE \A b \in DOMAIN px : px[b] = 0

\* The statement of C6 for the images whose mode is the mode of the padding
\* canvas of line 92: there it holds, and with it the coverage: every image
\* pixel lies in the unpadded part of exactly one tile.
C6_HoldsForRGBImages ==
    Returned("crop_to_grid") /\ PositiveTile /\ args.image.mode = "RGB" =>
        /\ C6_TilesHoldTheImagePixels
        /\ \A x \in 0 .. (args.image.size[1] - 1), y \in 0 .. (args.image.size[2] - 1) :
               Cardinality({k \in 1 .. Len(ret) :
                   /\ ret[k].origin[1] <= x /\ x < ret[k].origin[1] + ret[k].extent[1]
                   /\ ret[k].origin[2] <= y /\ y < ret[k].origin[2] + ret[k].extent[2]}) = 1

\* C7: for a positive tile size and an offset inside the image,
\* crop_to_grid_with_offset returns exactly floor((W-ox-1)/tw) *
\* floor((H-oy-1)/th) tiles, each a full unpadded tw x th region of the
\* image.
C7_OffsetGridReturnsFloorTimesFloorFullTiles ==
    /\ Called("crop_to_grid_with_offset") /\ PositiveTile
    /\ args.offset[1] < args.image.size[1]
    /\ args.offset[2] < args.image.size[2]
    =>
        /\ pc = "returned"
        /\ Len(ret) = Floor(args.image.size[1] - args.offset[1] - 1, args.tile_size[1])
                        * Floor(args.image.size[2] - args.offset[2] - 1, args.tile_size[2])
        /\ \A k \in 1 .. Len(ret) :
               /\ ret[k].size = args.tile_size
               /\ ret[k].at = <<0, 0>>
               /\ ret[k].extent = args.tile_size
               /\ ret[k].mode = args.image.mode
               /\ ret[k].origin[1] >= 0 /\ ret[k].origin[2] >= 0
               /\ ret[k].origin[1] + args.tile_size[1] <= args.image.size[1]
               /\ ret[k].origin[2] + args.tile_size[2] <= args.image.size[2]

\* C7 witness: the 1024 x 1024 image, 512 x 512 tiles, offset (256, 256):
\* one tile
C7_Witness ==
    /\ Returned("crop_to_grid_with_offset")
    /\ args.image.size = <<1024, 1024>>
    /\ args.tile_size = <<512, 512>>
    /\ args.offset = <<256, 256>>
    /\ Len(ret) = 1

\* C9: crop_to_grid and crop_to_grid_with_offset called with a tile size
\* whose width or height is zero or negative fail with an error; they never
\* return a tile sequence, not even an empty one.
C9_NonPositiveTileSizeRaises ==
    /\ Called("crop_to_grid") \/ Called("crop_to_grid_with_offset")
    /\ args.tile_size[1] <= 0 \/ args.tile_size[2] <= 0
    => pc = "raised"

====
